---- MODULE Spec2Model ----
(***************************************************************************)
(* Model of FastAPI/schemas/researches.py: the polygon validators of       *)
(* PolygonDescription, the geometry helpers nested in                       *)
(* has_self_intersections, the Description union and                        *)
(* CreateResearchRequest.check_single_text_description.                     *)
(*                                                                          *)
(* Three specifications share the module:                                   *)
(*   Spec      constructs one PolygonDescription from a coordinate list;    *)
(*   SpecGeom  applies orientation and do_intersect to drawn points;        *)
(*   SpecColl  constructs one CreateResearchRequest from raw payloads.      *)
(* Coordinates are small integers, on which Python's float arithmetic is    *)
(* exact.                                                                   *)
(***************************************************************************)
EXTENDS Integers, Sequences, FiniteSets

VARIABLES
    coordinates,   \* PolygonDescription: the raw coordinate list
    stage,         \* PolygonDescription: "input", "fields", "done"
    error,         \* PolygonDescription: NoError or the ValueError message
    p1, q1, p2, q2,\* geometry: endpoints of two segments
    shift,         \* geometry: a translation vector
    o, oShift,     \* geometry: orientation(p1, q1, p2), before and after the shift
    hit,           \* geometry: result of do_intersect(p1, q1, p2, q2)
    gstage,        \* geometry: "input", "oriented", "intersected"
    descriptions,  \* CreateResearchRequest: the raw descriptor payloads
    union_mode,    \* pydantic's rule for a Union several members of which accept
    parsed,        \* CreateResearchRequest: per payload, the class it became
    cerror,        \* CreateResearchRequest: NoError or the rejection reasons
    cstage         \* CreateResearchRequest: "input", "fields", "done"

polyVars == <<coordinates, stage, error>>
geomVars == <<p1, q1, p2, q2, shift, o, oShift, hit, gstage>>
collVars == <<descriptions, union_mode, parsed, cerror, cstage>>
vars == <<polyVars, geomVars, collVars>>

----------------------------------------------------------------------------
(* Bounds of the model. *)

\* x coordinates range over 0..MaxX
MaxX == 2
\* y coordinates range over 0..MaxY
MaxY == 1
\* longest coordinate list given to PolygonDescription
MaxLen == 5
\* the segment endpoints of SpecGeom have x in 0..GeomMaxX and y in 0..GeomMaxY
GeomMaxX == 3
GeomMaxY == 1
\* translation vectors range over (-MaxShift..MaxShift)^2
MaxShift == 1
\* most payloads in CreateResearchRequest.descriptions
MaxDescriptions == 3

Grid == (0..MaxX) \X (0..MaxY)
GeomGrid == (0..GeomMaxX) \X (0..GeomMaxY)
Shifts == ((-MaxShift)..MaxShift) \X ((-MaxShift)..MaxShift)

----------------------------------------------------------------------------
(* Outcomes: no error, or the message of the ValueError raised. *)

NoError == "ok"
TooFewPoints == "Each polygon must have at least 4 points including the closing point"
NotClosed == "Polygon must be closed, first and last point must be the same"
DuplicateVertex == "Polygon has repeated points, which is not allowed"
SelfIntersecting == "Polygon sides intersect with each other"
TooManyTextDescriptors == "There can be no more than one description with type \"text\""

----------------------------------------------------------------------------
(* Geometry helpers, nested in PolygonDescription.has_self_intersections.   *)
(* A point is <<x, y>>: p[1] is Python's p[0], p[2] is Python's p[1].       *)

max(a, b) == IF a >= b THEN a ELSE b
min(a, b) == IF a <= b THEN a ELSE b

\* orientation with the factor (r[0] - q[0]) written as r[0]
orientation_abs(p, q, r) ==
    LET val == (q[2] - p[2]) * r[1] - (q[1] - p[1]) * (r[2] - q[2])
    IN  IF val = 0 THEN 0 ELSE IF val > 0 THEN 1 ELSE 2

orientation(p, q, r) ==
    LET val == (q[2] - p[2]) * (r[1] - q[1]) - (q[1] - p[1]) * (r[2] - q[2])
    IN  IF val = 0 THEN 0 ELSE IF val > 0 THEN 1 ELSE 2

\* on_segment with < and > for <= and >=
on_segment_strict(p, q, r) ==
    /\ q[1] < max(p[1], r[1])
    /\ q[1] > min(p[1], r[1])
    /\ q[2] < max(p[2], r[2])
    /\ q[2] > min(p[2], r[2])

on_segment(p, q, r) ==
    /\ q[1] <= max(p[1], r[1])
    /\ q[1] >= min(p[1], r[1])
    /\ q[2] <= max(p[2], r[2])
    /\ q[2] >= min(p[2], r[2])

\* do_intersect without the four collinear branches
do_intersect_general_only(a1, b1, a2, b2) ==
    LET o1 == orientation(a1, b1, a2)
        o2 == orientation(a1, b1, b2)
        o3 == orientation(a2, b2, a1)
        o4 == orientation(a2, b2, b1)
    IN  o1 # o2 /\ o3 # o4

do_intersect(a1, b1, a2, b2) ==
    LET o1 == orientation(a1, b1, a2)
        o2 == orientation(a1, b1, b2)
        o3 == orientation(a2, b2, a1)
        o4 == orientation(a2, b2, b1)
    IN  IF o1 # o2 /\ o3 # o4 THEN TRUE
        ELSE IF o1 = 0 /\ on_segment(a1, a2, b1) THEN TRUE
        ELSE IF o2 = 0 /\ on_segment(a1, b2, b1) THEN TRUE
        ELSE IF o3 = 0 /\ on_segment(a2, a1, b2) THEN TRUE
        ELSE IF o4 = 0 /\ on_segment(a2, b1, b2) THEN TRUE
        ELSE FALSE

----------------------------------------------------------------------------
(* PolygonDescription.                                                      *)
(* Python's coordinates[k] is c[k + 1] here.                                *)

\* has_self_intersections with the inner loop written range(i + 1, i + 1),
\* which is empty
has_self_intersections_empty_inner(c) ==
    LET n == Len(c)
    IN  \E i \in 0..(n - 3) : \E j \in (i + 1)..i :
            do_intersect(c[i + 1], c[i + 2], c[j + 1], c[j + 2])

\* for i in range(n - 2): for j in range(i + 1, n - 1): the scan returns True
\* at the first pair of edges do_intersect accepts, and False if there is none
has_self_intersections(c) ==
    LET n == Len(c)
    IN  \E i \in 0..(n - 3) : \E j \in (i + 1)..(n - 2) :
            do_intersect(c[i + 1], c[i + 2], c[j + 1], c[j + 2])

\* validate_coordinates with the threshold 3 instead of 4
validate_coordinates_3(v) ==
    IF Len(v) < 3 THEN TooFewPoints ELSE NoError

\* field validator of 'coordinates', mode='before'
validate_coordinates(v) ==
    IF Len(v) < 4 THEN TooFewPoints ELSE NoError

\* check_polygon_validity with the repeated-points check before the closure check
check_polygon_validity_dup_first(c) ==
    LET n == Len(c)
    IN  IF Cardinality({c[k] : k \in 1..(n - 1)}) # n - 1 THEN DuplicateVertex
        ELSE IF c[1] # c[n] THEN NotClosed
        ELSE IF has_self_intersections(c) THEN SelfIntersecting
        ELSE NoError

\* check_polygon_validity with the scan before the repeated-points check
check_polygon_validity_scan_first(c) ==
    LET n == Len(c)
    IN  IF c[1] # c[n] THEN NotClosed
        ELSE IF has_self_intersections(c) THEN SelfIntersecting
        ELSE IF Cardinality({c[k] : k \in 1..(n - 1)}) # n - 1 THEN DuplicateVertex
        ELSE NoError

\* model validator, mode='after'; runs only when every field validated
check_polygon_validity(c) ==
    LET n == Len(c)
    IN  IF c[1] # c[n] THEN NotClosed
        ELSE IF Cardinality({c[k] : k \in 1..(n - 1)}) # n - 1 THEN DuplicateVertex
        ELSE IF has_self_intersections(c) THEN SelfIntersecting
        ELSE NoError

\* PolygonDescription(coordinates=c, text=...): the outcome of both validators
PolygonDescription(c) ==
    IF validate_coordinates(c) # NoError THEN validate_coordinates(c)
    ELSE check_polygon_validity(c)

----------------------------------------------------------------------------
(* Spec: construction of one PolygonDescription.                            *)

PolyIdle == /\ coordinates = <<>>
            /\ stage = "idle"
            /\ error = NoError

GeomIdle == /\ p1 = <<0, 0>> /\ q1 = <<0, 0>> /\ p2 = <<0, 0>> /\ q2 = <<0, 0>>
            /\ shift = <<0, 0>>
            /\ o = 0 /\ oShift = 0
            /\ hit = FALSE
            /\ gstage = "idle"

CollIdle == /\ descriptions = <<>>
            /\ union_mode = "idle"
            /\ parsed = <<>>
            /\ cerror = {}
            /\ cstage = "idle"

Init ==
    /\ \E n \in 0..MaxLen : coordinates \in [1..n -> Grid]
    /\ stage = "input"
    /\ error = NoError
    /\ GeomIdle
    /\ CollIdle

\* the 'before' validator of the coordinates field
ValidateCoordinates ==
    /\ stage = "input"
    /\ error' = validate_coordinates(coordinates)
    /\ stage' = IF validate_coordinates(coordinates) = NoError THEN "fields" ELSE "done"
    /\ UNCHANGED <<coordinates, geomVars, collVars>>

\* the 'after' model validator
CheckPolygonValidity ==
    /\ stage = "fields"
    /\ error' = check_polygon_validity(coordinates)
    /\ stage' = "done"
    /\ UNCHANGED <<coordinates, geomVars, collVars>>

Next == ValidateCoordinates \/ CheckPolygonValidity

Spec == Init /\ [][Next]_vars

----------------------------------------------------------------------------
(* Plane geometry the claims are stated in, independent of the helpers of   *)
(* has_self_intersections.                                                  *)

Sub(a, b) == <<a[1] - b[1], a[2] - b[2]>>
Cross(u, v) == u[1] * v[2] - u[2] * v[1]
Dot(u, v) == u[1] * v[1] + u[2] * v[2]
Abs(k) == IF k < 0 THEN -k ELSE k

\* x lies on the closed segment from a to b: x = a + s (b - a) with 0 <= s <= 1
OnClosedSegment(x, a, b) ==
    /\ Cross(Sub(b, a), Sub(x, a)) = 0
    /\ 0 <= Dot(Sub(x, a), Sub(b, a))
    /\ Dot(Sub(x, a), Sub(b, a)) <= Dot(Sub(b, a), Sub(b, a))

\* The closed segments a1-b1 and a2-b2 have a common point. Lines that are not
\* parallel meet where a1 + (s/D)(b1 - a1) = a2 + (t/D)(b2 - a2), D the
\* determinant; parallel segments with a common point share an endpoint of one.
SharePoint(a1, b1, a2, b2) ==
    LET d1 == Sub(b1, a1)
        d2 == Sub(b2, a2)
        D  == Abs(Cross(d1, d2))
    IN  IF D # 0
        THEN \E s \in 0..D : \E t \in 0..D :
                /\ D * a1[1] + s * d1[1] = D * a2[1] + t * d2[1]
                /\ D * a1[2] + s * d1[2] = D * a2[2] + t * d2[2]
        ELSE \/ OnClosedSegment(a2, a1, b1)
             \/ OnClosedSegment(b2, a1, b1)
             \/ OnClosedSegment(a1, a2, b2)
             \/ OnClosedSegment(b1, a2, b2)

\* The segments cross at one point interior to both: the endpoints of each lie
\* strictly on opposite sides of the line through the other.
ProperlyCross(a1, b1, a2, b2) ==
    /\ Cross(Sub(b1, a1), Sub(a2, a1)) * Cross(Sub(b1, a1), Sub(b2, a1)) < 0
    /\ Cross(Sub(b2, a2), Sub(a1, a2)) * Cross(Sub(b2, a2), Sub(b1, a2)) < 0

\* Edge k of a coordinate list runs from c[k] to c[k + 1], k in 1..Len(c) - 1.
Edges(c) == 1..(Len(c) - 1)
AdjacentEdges(c, i, j) == j = i + 1 \/ (i = 1 /\ j = Len(c) - 1)

IsClosed(c) == Len(c) >= 1 /\ c[1] = c[Len(c)]
HasRepeat(c) == \E i, j \in 1..(Len(c) - 1) : i < j /\ c[i] = c[j]

\* Edges i < j adjacent in the cyclic order meet only in their common vertex v:
\* they overlap exactly when they leave v in the same direction.
MeetOnlyAtVertex(c, i, j) ==
    LET v == IF j = i + 1 THEN c[j] ELSE c[1]
        a == IF j = i + 1 THEN c[i] ELSE c[2]
        b == IF j = i + 1 THEN c[j + 1] ELSE c[j]
    IN  ~(Cross(Sub(a, v), Sub(b, v)) = 0 /\ Dot(Sub(a, v), Sub(b, v)) > 0)

\* A simple closed polygon given with its closing duplicate.
IsSimpleClosed(c) ==
    /\ Len(c) >= 4
    /\ IsClosed(c)
    /\ ~HasRepeat(c)
    /\ \A i, j \in Edges(c) :
          i < j => IF AdjacentEdges(c, i, j)
                   THEN MeetOnlyAtVertex(c, i, j)
                   ELSE ~SharePoint(c[i], c[i + 1], c[j], c[j + 1])

UnitSquare == <<<<0, 0>>, <<0, 1>>, <<1, 1>>, <<1, 0>>, <<0, 0>>>>
Bowtie == <<<<0, 0>>, <<1, 1>>, <<1, 0>>, <<0, 1>>, <<0, 0>>>>

Validated == stage = "done"

----------------------------------------------------------------------------
(* Claims about PolygonDescription, checked under Spec.                     *)

\* C1: every simple closed polygon (at least 4 points, first = last, no other
\* repeated vertex, edges meeting only in the common vertex of cyclically
\* adjacent edges) validates successfully; so does the unit square.
C1_SimplePolygonAccepted ==
    (Validated /\ IsSimpleClosed(coordinates)) => error = NoError

\* C2: a coordinate list of fewer than 4 points fails with TooFewPoints and
\* with nothing else: the model validator never runs on it.
C2_TooFewPoints ==
    Len(coordinates) < 4 =>
        /\ stage # "fields"
        /\ Validated => error = TooFewPoints

C2_Witness ==
    /\ Validated
    /\ Len(coordinates) = 3
    /\ coordinates[1] = coordinates[3]
    /\ error = TooFewPoints

\* C3: a list of at least 4 points whose first point differs from its last
\* fails with NotClosed, also when it has repeated vertices or crossing edges.
C3_NotClosed ==
    (Validated /\ Len(coordinates) >= 4 /\ ~IsClosed(coordinates))
        => error = NotClosed

C3_Witness ==
    /\ Validated
    /\ Len(coordinates) >= 4
    /\ ~IsClosed(coordinates)
    /\ HasRepeat(coordinates)
    /\ error = NotClosed

\* C4: a closed list of at least 4 points with two equal vertices among those
\* before the closing duplicate fails with DuplicateVertex, not SelfIntersecting.
C4_DuplicateVertex ==
    (Validated /\ Len(coordinates) >= 4 /\ IsClosed(coordinates)
               /\ HasRepeat(coordinates))
        => error = DuplicateVertex

C4_Witness ==
    /\ Validated
    /\ Len(coordinates) >= 4
    /\ IsClosed(coordinates)
    /\ HasRepeat(coordinates)
    /\ error = DuplicateVertex

\* Two edges not adjacent in the cyclic order properly cross.
HasProperCrossing(c) ==
    \E i, j \in Edges(c) :
        /\ i < j
        /\ ~AdjacentEdges(c, i, j)
        /\ ProperlyCross(c[i], c[i + 1], c[j], c[j + 1])

\* C5: a closed list of at least 4 points without repeated vertices in which
\* two edges not adjacent in the cyclic order properly cross fails with
\* SelfIntersecting; so does the bowtie.
C5_CrossingRejected ==
    /\ (Validated /\ Len(coordinates) >= 4 /\ IsClosed(coordinates)
                  /\ ~HasRepeat(coordinates) /\ HasProperCrossing(coordinates))
          => error = SelfIntersecting
    /\ (Validated /\ coordinates = Bowtie) => error = SelfIntersecting

C5_Witness ==
    /\ Validated
    /\ coordinates = Bowtie
    /\ HasProperCrossing(coordinates)
    /\ error = SelfIntersecting

\* Some edge passes through a vertex that is not one of its endpoints.
HasTouch(c) ==
    \E i \in Edges(c) : \E j \in 1..(Len(c) - 1) :
        /\ c[j] # c[i] /\ c[j] # c[i + 1]
        /\ OnClosedSegment(c[j], c[i], c[i + 1])

\* C6: a closed list of at least 4 points without repeated vertices in which
\* some edge passes through a vertex that is not one of its endpoints fails
\* with SelfIntersecting.
C6_TouchRejected ==
    (Validated /\ Len(coordinates) >= 4 /\ IsClosed(coordinates)
               /\ ~HasRepeat(coordinates) /\ HasTouch(coordinates))
        => error = SelfIntersecting

C6_Witness ==
    /\ Validated
    /\ Len(coordinates) >= 4
    /\ IsClosed(coordinates)
    /\ ~HasRepeat(coordinates)
    /\ HasTouch(coordinates)
    /\ ~HasProperCrossing(coordinates)
    /\ \E i, j, k \in 1..Len(coordinates) :
          Cross(Sub(coordinates[j], coordinates[i]),
                Sub(coordinates[k], coordinates[i])) # 0
    /\ error = SelfIntersecting

----------------------------------------------------------------------------
(* SpecGeom: orientation and do_intersect applied to drawn points.          *)

Add(a, t) == <<a[1] + t[1], a[2] + t[2]>>

InitGeom ==
    /\ p1 \in GeomGrid /\ q1 \in GeomGrid /\ p2 \in GeomGrid /\ q2 \in GeomGrid
    /\ shift \in Shifts
    /\ o = 0 /\ oShift = 0
    /\ hit = FALSE
    /\ gstage = "input"
    /\ PolyIdle
    /\ CollIdle

\* orientation(p1, q1, p2), and the same call on the three points moved by shift
Orientation ==
    /\ gstage = "input"
    /\ o' = orientation(p1, q1, p2)
    /\ oShift' = orientation(Add(p1, shift), Add(q1, shift), Add(p2, shift))
    /\ gstage' = "oriented"
    /\ UNCHANGED <<p1, q1, p2, q2, shift, hit, polyVars, collVars>>

\* do_intersect(p1, q1, p2, q2)
DoIntersect ==
    /\ gstage = "oriented"
    /\ hit' = do_intersect(p1, q1, p2, q2)
    /\ gstage' = "intersected"
    /\ UNCHANGED <<p1, q1, p2, q2, shift, o, oShift, polyVars, collVars>>

NextGeom == Orientation \/ DoIntersect

SpecGeom == InitGeom /\ [][NextGeom]_vars

\* C9: orientation returns the same one of 0 (collinear), 1, 2 for p, q, r
\* and for p + t, q + t, r + t.
C9_OrientationTranslation ==
    gstage # "input" => (o \in {0, 1, 2} /\ oShift = o)

C9_Witness ==
    /\ gstage = "oriented"
    /\ shift[1] # 0 /\ shift[2] # 0
    /\ o = 2
    /\ oShift = 2

\* C10: for segments with distinct endpoints, do_intersect returns true
\* exactly when the two closed segments have a common point.
C10_IntersectIffSharePoint ==
    (gstage = "intersected" /\ p1 # q1 /\ p2 # q2)
        => (hit <=> SharePoint(p1, q1, p2, q2))

\* collinear segments with four distinct endpoints that overlap
C10_Witness ==
    /\ gstage = "intersected"
    /\ p1 # q1 /\ p2 # q2
    /\ Cross(Sub(q1, p1), Sub(q2, p2)) = 0
    /\ {p1, q1} \cap {p2, q2} = {}
    /\ hit
    /\ SharePoint(p1, q1, p2, q2)

----------------------------------------------------------------------------
(* SpecColl: construction of one CreateResearchRequest from raw payloads.   *)
(*                                                                          *)
(* A payload is a dict with a "type" tag, with or without a "text" string,  *)
(* and with "coordinates" absent (text), one pair [x, y] (point), or a list *)
(* of pairs (polygon).                                                      *)

Kinds == {"text", "polygon", "point"}

OpenList == <<<<0, 0>>, <<0, 1>>, <<1, 1>>, <<1, 0>>>>
RepeatList == <<<<0, 0>>, <<0, 1>>, <<1, 1>>, <<0, 1>>, <<0, 0>>>>
ShortList == <<<<0, 0>>, <<0, 1>>, <<0, 0>>>>

CoordinateInputs ==
    {[shape |-> "absent", pts |-> <<>>]}
    \cup {[shape |-> "pair", pts |-> <<pt>>] : pt \in {<<0, 0>>, <<1, 1>>}}
    \cup {[shape |-> "list", pts |-> l] :
             l \in {UnitSquare, Bowtie, OpenList, RepeatList, ShortList}}

\* the coordinates a payload of each kind carries
ShapeOf(kind) ==
    IF kind = "text" THEN "absent" ELSE IF kind = "point" THEN "pair" ELSE "list"

Payloads ==
    {d \in [type : Kinds, text : BOOLEAN, coords : CoordinateInputs] :
        d.coords.shape = ShapeOf(d.type)}

FieldRequired == "Field required"
NotANumber == "Input should be a valid number"

\* TextDescription: type is any str, text is required, other keys are ignored
TextDescriptionErrors(d) ==
    IF d.text THEN {} ELSE {FieldRequired}

\* PolygonDescription: the validators of PolygonDescription on the payload's
\* coordinates; the model validator runs only when no field failed
PolygonDescriptionErrors(d) ==
    LET coordErr ==
            IF d.coords.shape = "absent" THEN {FieldRequired}
            ELSE IF d.coords.shape = "pair"
                 \* len([x, y]) = 2 < 4 in validate_coordinates
                 THEN {TooFewPoints}
            ELSE IF validate_coordinates(d.coords.pts) # NoError
                 THEN {validate_coordinates(d.coords.pts)}
            ELSE {}
        textErr == IF d.text THEN {} ELSE {FieldRequired}
    IN  IF coordErr \cup textErr # {} THEN coordErr \cup textErr
        ELSE IF check_polygon_validity(d.coords.pts) # NoError
             THEN {check_polygon_validity(d.coords.pts)}
        ELSE {}

\* PointDescription: coordinates is one pair of numbers, text is required
PointDescriptionErrors(d) ==
    (IF d.coords.shape = "absent" THEN {FieldRequired}
     ELSE IF d.coords.shape = "list" THEN {NotANumber}
     ELSE {})
    \cup (IF d.text THEN {} ELSE {FieldRequired})

\* Description = Union[TextDescription, PolygonDescription, PointDescription]:
\* every member is tried; among those that accept, pydantic returns the
\* leftmost one, or (later releases) the one with most fields set, leftmost on
\* a tie. A payload sets 2 fields of TextDescription and 3 of the other two.
Description(d, mode) ==
    LET textOk == TextDescriptionErrors(d) = {}
        polygonOk == PolygonDescriptionErrors(d) = {}
        pointOk == PointDescriptionErrors(d) = {}
    IN  IF mode = "left_to_right"
        THEN IF textOk THEN "TextDescription"
             ELSE IF polygonOk THEN "PolygonDescription"
             ELSE IF pointOk THEN "PointDescription"
             ELSE "rejected"
        ELSE IF polygonOk THEN "PolygonDescription"
             ELSE IF pointOk THEN "PointDescription"
             ELSE IF textOk THEN "TextDescription"
             ELSE "rejected"

\* the reasons reported when no member of the union accepts
DescriptionErrors(d, mode) ==
    IF Description(d, mode) # "rejected" THEN {}
    ELSE TextDescriptionErrors(d) \cup PolygonDescriptionErrors(d)
            \cup PointDescriptionErrors(d)

\* check_single_text_description on the constructed descriptions
check_single_text_description(ds) ==
    LET text_descriptions == {i \in 1..Len(ds) : ds[i] = "TextDescription"}
    IN  IF Cardinality(text_descriptions) > 1 THEN TooManyTextDescriptors
        ELSE NoError

InitColl ==
    /\ \E n \in 0..MaxDescriptions : descriptions \in [1..n -> Payloads]
    /\ union_mode \in {"left_to_right", "most_fields_set"}
    /\ parsed = <<>>
    /\ cerror = {}
    /\ cstage = "input"
    /\ PolyIdle
    /\ GeomIdle

\* validation of the field descriptions: list[Description]; the errors of all
\* items are collected, each with the index of its item
ValidateDescriptions ==
    /\ cstage = "input"
    /\ parsed' = [i \in 1..Len(descriptions) |->
                     Description(descriptions[i], union_mode)]
    /\ cerror' = UNION {{<<i, m>> : m \in DescriptionErrors(descriptions[i], union_mode)} :
                           i \in 1..Len(descriptions)}
    /\ cstage' = IF \A i \in 1..Len(descriptions) :
                        Description(descriptions[i], union_mode) # "rejected"
                 THEN "fields" ELSE "done"
    /\ UNCHANGED <<descriptions, union_mode, polyVars, geomVars>>

\* the 'after' model validator of CreateResearchRequest
CheckSingleTextDescription ==
    /\ cstage = "fields"
    /\ cerror' = IF check_single_text_description(parsed) # NoError
                 THEN {<<0, check_single_text_description(parsed)>>}
                 ELSE {}
    /\ cstage' = "done"
    /\ UNCHANGED <<descriptions, union_mode, parsed, polyVars, geomVars>>

NextColl == ValidateDescriptions \/ CheckSingleTextDescription

SpecColl == InitColl /\ [][NextColl]_vars

Accepted == cstage = "done" /\ cerror = {}

\* A payload shaped as its kind tag says (section 4.3), a polygon's
\* coordinates being a simple closed polygon.
WellFormed(d) ==
    /\ d.text
    /\ d.type = "text" => d.coords.shape = "absent"
    /\ d.type = "point" => d.coords.shape = "pair"
    /\ d.type = "polygon" =>
          (d.coords.shape = "list" /\ IsSimpleClosed(d.coords.pts))

TextKind(ds) == {i \in 1..Len(ds) : ds[i].type = "text"}

\* C7: a collection of individually valid descriptors with two or more
\* descriptors of kind text fails with TooManyTextDescriptors, one with exactly
\* one descriptor of kind text succeeds, and an accepted collection has at
\* most one member of kind text.
C7_AtMostOneText ==
    cstage = "done" =>
        /\ (/\ \A i \in 1..Len(descriptions) : WellFormed(descriptions[i])
            /\ Cardinality(TextKind(descriptions)) >= 2)
              => cerror = {<<0, TooManyTextDescriptors>>}
        /\ (/\ \A i \in 1..Len(descriptions) : WellFormed(descriptions[i])
            /\ Cardinality(TextKind(descriptions)) = 1)
              => cerror = {}
        /\ cerror = {} => Cardinality(TextKind(descriptions)) <= 1

\* The payload is tagged polygon, carries a coordinate list and a text, and
\* the coordinate list fails validation.
BadPolygon(d) ==
    /\ d.type = "polygon"
    /\ d.text
    /\ d.coords.shape = "list"
    /\ PolygonDescription(d.coords.pts) # NoError

\* C8: a payload tagged polygon whose coordinate list fails validation is
\* rejected with that polygon error, and the collection with it; it is never
\* constructed as a TextDescription and never counted by the text rule.
C8_PolygonTagOnlyPolygon ==
    \A i \in 1..Len(descriptions) :
        (cstage # "input" /\ BadPolygon(descriptions[i])) =>
            /\ parsed[i] = "rejected"
            /\ <<i, PolygonDescription(descriptions[i].coords.pts)>> \in cerror
            /\ cstage = "done"

====
